---- MODULE Spec2Model ----
(***************************************************************************)
(* A model of two pieces of the widget toolkit:                            *)
(*   - text/font_descriptor.rs : the FontDescriptor value type and its     *)
(*     builder methods;                                                    *)
(*   - widget/sized_box.rs     : the SizedBox container widget, its        *)
(*     builders, its SizedBoxMut mutators and its Widget implementation    *)
(*     (on_event, on_status_change, lifecycle, layout, paint).             *)
(*                                                                         *)
(* Lengths are f64 in the source.  The model uses the integer-valued,     *)
(* non-NaN part of f64: the naturals plus INFINITY.  Option<T> is a        *)
(* sequence of length at most one: None is << >>, Some(v) is <<v>>.        *)
(***************************************************************************)
EXTENDS Integers, Sequences, FiniteSets, TLC

VARIABLES
    fd,        \* the FontDescriptor being built
    fdFamily,  \* the family it was created with
    fdSet,     \* the attributes a builder has set since
    widget,    \* the SizedBox
    parent_bc, \* the BoxConstraints its parent lays it out under
    requests,  \* the invalidations pending on the widget
    dirty,     \* a mutator assigned child, width, height or border since the last layout
    last       \* the last call: its name, arguments and result

vars == <<fd, fdFamily, fdSet, widget, parent_bc, requests, dirty, last>>

fontVars == <<fd, fdFamily, fdSet>>
boxVars == <<widget, parent_bc, requests, dirty>>

(***************************************************************************)
(* Bounds of the model                                                     *)
(***************************************************************************)
MaxDim == 2
MaxBorder == 1

(***************************************************************************)
(* Option<T>                                                               *)
(***************************************************************************)
None == << >>
Some(v) == <<v>>
is_some(o) == Len(o) = 1
unwrap(o) == o[1]
unwrap_or(o, d) == IF is_some(o) THEN o[1] ELSE d

(***************************************************************************)
(* text/font_descriptor.rs                                                 *)
(***************************************************************************)
DEFAULT_FONT_SIZE == 12

FontFamilies == {"SYSTEM_UI", "SERIF", "MONOSPACE"}
FontSizes == {DEFAULT_FONT_SIZE - 2, DEFAULT_FONT_SIZE, DEFAULT_FONT_SIZE + 2}
FontWeights == {"LIGHT", "REGULAR", "BOLD"}
FontStyles == {"Regular", "Italic"}

FontDescriptor_new(family) ==
    [family |-> family,
     size   |-> DEFAULT_FONT_SIZE,
     weight |-> "REGULAR",
     style  |-> "Regular"]

with_size(self, size) == [self EXCEPT !.size = size]

with_weight_resets_size(self, weight) ==
    [self EXCEPT !.weight = weight, !.size = DEFAULT_FONT_SIZE]

with_weight(self, weight) == [self EXCEPT !.weight = weight]

with_style(self, style) == [self EXCEPT !.style = style]

\* let fd = FontDescriptor::new(family);
Call_new ==
    \E family \in FontFamilies :
        /\ fd' = FontDescriptor_new(family)
        /\ fdFamily' = family
        /\ fdSet' = {}
        /\ last' = [op |-> "new", arg |-> family]
        /\ UNCHANGED boxVars

\* let fd = fd.with_size(size);
Call_with_size ==
    \E size \in FontSizes :
        /\ fd' = with_size(fd, size)
        /\ fdSet' = fdSet \cup {"size"}
        /\ last' = [op |-> "with_size", arg |-> size]
        /\ UNCHANGED <<fdFamily, boxVars>>

\* let fd = fd.with_weight(weight);
Call_with_weight ==
    \E weight \in FontWeights :
        /\ fd' = with_weight(fd, weight)
        /\ fdSet' = fdSet \cup {"weight"}
        /\ last' = [op |-> "with_weight", arg |-> weight]
        /\ UNCHANGED <<fdFamily, boxVars>>

\* let fd = fd.with_style(style);
Call_with_style ==
    \E style \in FontStyles :
        /\ fd' = with_style(fd, style)
        /\ fdSet' = fdSet \cup {"style"}
        /\ last' = [op |-> "with_style", arg |-> style]
        /\ UNCHANGED <<fdFamily, boxVars>>

(***************************************************************************)
(* f64 lengths, Size, BoxConstraints                                       *)
(***************************************************************************)
INFINITY == 1000

Finite == 0..MaxDim
Dims == Finite \cup {INFINITY}
BorderWidths == 0..MaxBorder

\* f64::max, f64::min
fmax(a, b) == IF a >= b THEN a ELSE b
fmin(a, b) == IF a <= b THEN a ELSE b
\* f64 addition and subtraction where the left operand may be infinite
fadd(a, b) == IF a = INFINITY \/ b = INFINITY THEN INFINITY ELSE a + b
fsub(a, b) == IF a = INFINITY THEN INFINITY ELSE a - b

Size_new(w, h) == [width |-> w, height |-> h]

BoxConstraints_new(min, max) == [min |-> min, max |-> max]

\* BoxConstraints::shrink: both corners reduced by diff, not below zero
shrink(bc, dw, dh) ==
    BoxConstraints_new(
        Size_new(fmax(fsub(bc.min.width, dw), 0), fmax(fsub(bc.min.height, dh), 0)),
        Size_new(fmax(fsub(bc.max.width, dw), 0), fmax(fsub(bc.max.height, dh), 0)))

\* BoxConstraints::constrain: the size clamped into [min, max]
constrain(bc, w, h) ==
    Size_new(fmin(fmax(w, bc.min.width), bc.max.width),
             fmin(fmax(h, bc.min.height), bc.max.height))

\* BoxConstraints::tight(size), BoxConstraints::loosen()
tight(size) == BoxConstraints_new(size, size)
loosen(bc) == BoxConstraints_new(Size_new(0, 0), bc.max)

\* the constraints a parent may pass down: min <= max on both axes
ParentConstraints ==
    {BoxConstraints_new(Size_new(a, b), Size_new(c, d)) :
        <<a, b, c, d>> \in {q \in Finite \X Finite \X Dims \X Dims :
                              q[1] <= q[3] /\ q[2] <= q[4]}}

\* the constraints of the window a mounted root widget is laid out in
WindowConstraints ==
    {tight(Size_new(MaxDim, MaxDim)), loosen(tight(Size_new(MaxDim, MaxDim)))}

\* the sizes a child may answer to the constraints it is given
ChildSizes(bc) ==
    {Size_new(w, h) : <<w, h>> \in {q \in Dims \X Dims :
        /\ bc.min.width <= q[1] /\ q[1] <= bc.max.width
        /\ bc.min.height <= q[2] /\ q[2] <= bc.max.height}}

(***************************************************************************)
(* widget/sized_box.rs : SizedBox, constructors and builders               *)
(***************************************************************************)
Children == {"Label"}
Brushes == {"Color", "Linear"}
Radii == {0, 1}

SizedBox_new(c) ==
    [child |-> Some(c), width |-> None, height |-> None,
     background |-> None, border |-> None, corner_radius |-> 0]

SizedBox_empty ==
    [child |-> None, width |-> None, height |-> None,
     background |-> None, border |-> None, corner_radius |-> 0]

BorderStyle(bw) == [width |-> bw]

width(self, w) == [self EXCEPT !.width = Some(w)]
height(self, h) == [self EXCEPT !.height = Some(h)]
expand(self) == [self EXCEPT !.width = Some(INFINITY), !.height = Some(INFINITY)]
expand_width(self) == [self EXCEPT !.width = Some(INFINITY)]
expand_height(self) == [self EXCEPT !.height = Some(INFINITY)]
background(self, brush) == [self EXCEPT !.background = Some(brush)]
border(self, bw) == [self EXCEPT !.border = Some(BorderStyle(bw))]
rounded(self, radius) == [self EXCEPT !.corner_radius = radius]

(***************************************************************************)
(* SizedBox::child_constraints                                             *)
(***************************************************************************)
\* a set axis only caps the maximum
child_constraints_untight(self, bc) ==
    LET wpair == IF is_some(self.width)
                 THEN LET w == fmin(fmax(unwrap(self.width), bc.min.width), bc.max.width)
                      IN  <<bc.min.width, w>>
                 ELSE <<bc.min.width, bc.max.width>>
        hpair == IF is_some(self.height)
                 THEN LET h == fmin(fmax(unwrap(self.height), bc.min.height), bc.max.height)
                      IN  <<bc.min.height, h>>
                 ELSE <<bc.min.height, bc.max.height>>
    IN  BoxConstraints_new(Size_new(wpair[1], hpair[1]), Size_new(wpair[2], hpair[2]))

\* an unset axis is loosened
child_constraints_loosens(self, bc) ==
    LET wpair == IF is_some(self.width)
                 THEN LET w == fmin(fmax(unwrap(self.width), bc.min.width), bc.max.width)
                      IN  <<w, w>>
                 ELSE <<0, bc.max.width>>
        hpair == IF is_some(self.height)
                 THEN LET h == fmin(fmax(unwrap(self.height), bc.min.height), bc.max.height)
                      IN  <<h, h>>
                 ELSE <<0, bc.max.height>>
    IN  BoxConstraints_new(Size_new(wpair[1], hpair[1]), Size_new(wpair[2], hpair[2]))

child_constraints(self, bc) ==
    LET wpair == IF is_some(self.width)
                 THEN LET w == fmin(fmax(unwrap(self.width), bc.min.width), bc.max.width)
                      IN  <<w, w>>
                 ELSE <<bc.min.width, bc.max.width>>
        hpair == IF is_some(self.height)
                 THEN LET h == fmin(fmax(unwrap(self.height), bc.min.height), bc.max.height)
                      IN  <<h, h>>
                 ELSE <<bc.min.height, bc.max.height>>
    IN  BoxConstraints_new(Size_new(wpair[1], hpair[1]), Size_new(wpair[2], hpair[2]))

(***************************************************************************)
(* Widget for SizedBox : layout                                            *)
(* child_size is the answer of child.layout to child_bc (unused without a  *)
(* child).  The result holds the returned size and what was handed to the  *)
(* child: its constraints and the origin it is placed at.                  *)
(***************************************************************************)
border_width_of(self) == IF is_some(self.border) THEN unwrap(self.border).width ELSE 0

layout_child_bc(self, bc) ==
    LET border_width == border_width_of(self)
    IN  shrink(child_constraints(self, bc), 2 * border_width, 2 * border_width)

\* the childless size is constrained by the child's (shrunk) constraints
layout_constrains_child_bc(self, bc, child_size) ==
    LET border_width == border_width_of(self)
        child_bc == layout_child_bc(self, bc)
        origin == [x |-> border_width, y |-> border_width]
    IN  IF is_some(self.child)
        THEN [size |-> Size_new(fadd(child_size.width, 2 * border_width),
                                fadd(child_size.height, 2 * border_width)),
              child_bc |-> Some(child_bc),
              placed |-> Some(origin)]
        ELSE [size |-> constrain(child_bc, unwrap_or(self.width, 0), unwrap_or(self.height, 0)),
              child_bc |-> None,
              placed |-> None]

\* the border is added on one side only
layout_single_border(self, bc, child_size) ==
    LET border_width == border_width_of(self)
        child_bc == layout_child_bc(self, bc)
        origin == [x |-> border_width, y |-> border_width]
    IN  IF is_some(self.child)
        THEN [size |-> Size_new(fadd(child_size.width, border_width),
                                fadd(child_size.height, border_width)),
              child_bc |-> Some(child_bc),
              placed |-> Some(origin)]
        ELSE [size |-> constrain(bc, unwrap_or(self.width, 0), unwrap_or(self.height, 0)),
              child_bc |-> None,
              placed |-> None]

layout(self, bc, child_size) ==
    LET border_width == border_width_of(self)
        child_bc == layout_child_bc(self, bc)
        origin == [x |-> border_width, y |-> border_width]
    IN  IF is_some(self.child)
        THEN [size |-> Size_new(fadd(child_size.width, 2 * border_width),
                                fadd(child_size.height, 2 * border_width)),
              child_bc |-> Some(child_bc),
              placed |-> Some(origin)]
        ELSE [size |-> constrain(bc, unwrap_or(self.width, 0), unwrap_or(self.height, 0)),
              child_bc |-> None,
              placed |-> None]

(***************************************************************************)
(* The contexts handed to the widget.  `requests` is the set of            *)
(* invalidations pending on the widget; a pass clears the one it serves.   *)
(***************************************************************************)
request_layout(reqs) == reqs \cup {"layout"}
request_paint(reqs) == reqs \cup {"paint"}
children_changed(reqs) == reqs \cup {"children_changed"}

\* RenderContext: the current clip, the stack of saved clips, the drawing
\* operations issued so far, each with the clip it was drawn under
PaintCtx_new == [clip |-> None, saved |-> << >>, ops |-> << >>]
PaintOp(ctx, op, arg) == [op |-> op, arg |-> arg, clip |-> ctx.clip]
save(ctx) ==
    [ctx EXCEPT !.saved = Append(@, ctx.clip),
                !.ops = Append(@, PaintOp(ctx, "save", None))]
restore(ctx) ==
    [ctx EXCEPT !.clip = ctx.saved[Len(ctx.saved)],
                !.saved = SubSeq(ctx.saved, 1, Len(ctx.saved) - 1),
                !.ops = Append(@, PaintOp(ctx, "restore", None))]
clip(ctx, shape) ==
    [ctx EXCEPT !.clip = Some(shape),
                !.ops = Append(@, PaintOp(ctx, "clip", Some(shape)))]
draw(ctx, op, arg) == [ctx EXCEPT !.ops = Append(@, PaintOp(ctx, op, Some(arg)))]

\* size.to_rect().inset(inset).to_rounded_rect(radius); the inset is kept
\* doubled, so that border_width / -2.0 stays an integer
RoundedRect(inset_x2, radius) == [inset_x2 |-> inset_x2, radius |-> radius]

(***************************************************************************)
(* SizedBoxMut : the mutators                                              *)
(***************************************************************************)
Mutate(op, w, reqs, layout_field) ==
    /\ widget' = w
    /\ requests' = reqs
    /\ dirty' = (dirty \/ layout_field)
    /\ last' = [op |-> op]
    /\ UNCHANGED <<fontVars, parent_bc>>

set_child ==
    \E c \in Children :
        Mutate("set_child", [widget EXCEPT !.child = Some(c)],
               request_layout(children_changed(requests)), TRUE)

remove_child ==
    Mutate("remove_child", [widget EXCEPT !.child = None],
           request_layout(children_changed(requests)), TRUE)

set_width ==
    \E w \in Dims :
        Mutate("set_width", [widget EXCEPT !.width = Some(w)],
               request_layout(requests), TRUE)

set_height ==
    \E h \in Dims :
        Mutate("set_height", [widget EXCEPT !.height = Some(h)],
               request_layout(requests), TRUE)

unset_width ==
    Mutate("unset_width", [widget EXCEPT !.width = None],
           request_layout(requests), TRUE)

unset_height ==
    Mutate("unset_height", [widget EXCEPT !.height = None],
           request_layout(requests), TRUE)

set_background ==
    \E brush \in Brushes :
        Mutate("set_background", [widget EXCEPT !.background = Some(brush)],
               request_paint(requests), FALSE)

clear_background ==
    Mutate("clear_background", [widget EXCEPT !.background = None],
           request_paint(requests), FALSE)

\* the border change only asks for a repaint
set_border_requests_paint ==
    \E bw \in BorderWidths :
        Mutate("set_border", [widget EXCEPT !.border = Some(BorderStyle(bw))],
               request_paint(requests), TRUE)

set_border ==
    \E bw \in BorderWidths :
        Mutate("set_border", [widget EXCEPT !.border = Some(BorderStyle(bw))],
               request_layout(requests), TRUE)

clear_border ==
    Mutate("clear_border", [widget EXCEPT !.border = None],
           request_layout(requests), TRUE)

set_rounded ==
    \E radius \in Radii :
        Mutate("set_rounded", [widget EXCEPT !.corner_radius = radius],
               request_paint(requests), FALSE)

(***************************************************************************)
(* Widget for SizedBox : on_event, on_status_change, lifecycle             *)
(* Each yields the calls it makes on the child, in order.                  *)
(***************************************************************************)
Events == {"MouseDown", "KeyDown"}
LifeCycles == {"WidgetAdded", "BuildFocusChain"}
StatusChanges == {"HotChanged", "FocusChanged"}

ChildCall(c, method, arg) == [child |-> c, method |-> method, arg |-> arg]

on_event(self, event) ==
    IF is_some(self.child)
    THEN <<ChildCall(unwrap(self.child), "on_event", event)>>
    ELSE << >>

on_status_change(self, event) == << >>

\* the notification stops at the box
lifecycle_not_forwarded(self, event) == << >>

lifecycle(self, event) ==
    IF is_some(self.child)
    THEN <<ChildCall(unwrap(self.child), "lifecycle", event)>>
    ELSE << >>

Call_on_event ==
    \E event \in Events :
        /\ last' = [op |-> "on_event", arg |-> event, calls |-> on_event(widget, event)]
        /\ UNCHANGED <<fontVars, boxVars>>

Call_on_status_change ==
    \E event \in StatusChanges :
        /\ last' = [op |-> "on_status_change", arg |-> event,
                    calls |-> on_status_change(widget, event)]
        /\ UNCHANGED <<fontVars, boxVars>>

Call_lifecycle ==
    \E event \in LifeCycles :
        /\ last' = [op |-> "lifecycle", arg |-> event, calls |-> lifecycle(widget, event)]
        /\ UNCHANGED <<fontVars, boxVars>>

(***************************************************************************)
(* Widget for SizedBox : paint, BackgroundBrush::paint                     *)
(***************************************************************************)
BackgroundBrush_paint(brush, ctx) == draw(ctx, "fill", brush)

\* the background is clipped without a save/restore scope
paint_without_save(self, ctx0) ==
    LET corner_radius == self.corner_radius
        panel == RoundedRect(0, corner_radius)
        PaintBackground(ctx) == BackgroundBrush_paint(unwrap(self.background), clip(ctx, panel))
        ctx1 == IF is_some(self.background) THEN PaintBackground(ctx0) ELSE ctx0
        ctx2 == IF is_some(self.border)
                THEN LET border_width == unwrap(self.border).width
                     IN  draw(ctx1, "stroke", RoundedRect(-border_width, corner_radius))
                ELSE ctx1
    IN  IF is_some(self.child) THEN draw(ctx2, "child_paint", unwrap(self.child)) ELSE ctx2

paint(self, ctx0) ==
    LET corner_radius == self.corner_radius
        panel == RoundedRect(0, corner_radius)
        PaintBackground(ctx) == BackgroundBrush_paint(unwrap(self.background), clip(ctx, panel))
        \* ctx.with_save(|ctx| ...): save, the closure, restore
        ctx1 == IF is_some(self.background)
                THEN restore(PaintBackground(save(ctx0)))
                ELSE ctx0
        ctx2 == IF is_some(self.border)
                THEN LET border_width == unwrap(self.border).width
                     IN  draw(ctx1, "stroke", RoundedRect(-border_width, corner_radius))
                ELSE ctx1
    IN  IF is_some(self.child) THEN draw(ctx2, "child_paint", unwrap(self.child)) ELSE ctx2

\* the paint pass: the widget paints into a fresh context
Call_paint ==
    /\ last' = [op |-> "paint", ctx |-> paint(widget, PaintCtx_new)]
    /\ requests' = requests \ {"paint"}
    /\ UNCHANGED <<fontVars, widget, parent_bc, dirty>>

(***************************************************************************)
(* Calls of child_constraints and layout                                   *)
(***************************************************************************)
Call_child_constraints ==
    /\ last' = [op |-> "child_constraints", out |-> child_constraints(widget, parent_bc)]
    /\ UNCHANGED <<fontVars, boxVars>>

\* layout under the constraints bc; a child, when there is one, answers
\* any size its constraints allow
Call_layout ==
    \E child_size \in ChildSizes(layout_child_bc(widget, parent_bc)) :
        /\ last' = [op |-> "layout",
                    child_size |-> IF is_some(widget.child) THEN Some(child_size) ELSE None,
                    out |-> layout(widget, parent_bc, child_size)]
        /\ requests' = requests \ {"layout"}
        /\ dirty' = FALSE
        /\ UNCHANGED <<fontVars, widget, parent_bc>>

(***************************************************************************)
(* Building a SizedBox: a constructor, then builder methods                *)
(***************************************************************************)
Build(op, w) ==
    /\ widget' = w
    /\ last' = [op |-> op]
    /\ UNCHANGED <<fontVars, parent_bc, requests, dirty>>

Build_new == \E c \in Children : Build("new", SizedBox_new(c))
Build_empty == Build("empty", SizedBox_empty)
Build_width == \E w \in Finite : Build("width", width(widget, w))
Build_height == \E h \in Finite : Build("height", height(widget, h))
Build_expand == Build("expand", expand(widget))
Build_expand_width == Build("expand_width", expand_width(widget))
Build_expand_height == Build("expand_height", expand_height(widget))
Build_border == \E bw \in BorderWidths : Build("border", border(widget, bw))

(***************************************************************************)
(* Specifications                                                          *)
(***************************************************************************)
Init ==
    /\ fd = FontDescriptor_new("SYSTEM_UI")
    /\ fdFamily = "SYSTEM_UI"
    /\ fdSet = {}
    /\ widget \in {SizedBox_empty} \cup {SizedBox_new(c) : c \in Children}
    /\ parent_bc \in WindowConstraints
    /\ requests = {}
    /\ dirty = FALSE
    /\ last = [op |-> "init"]

\* a font descriptor fresh from FontDescriptor::new
InitFont ==
    /\ \E family \in FontFamilies :
        /\ fd = FontDescriptor_new(family)
        /\ fdFamily = family
    /\ fdSet = {}
    /\ widget = SizedBox_empty
    /\ parent_bc = tight(Size_new(MaxDim, MaxDim))
    /\ requests = {}
    /\ dirty = FALSE
    /\ last = [op |-> "init"]

\* a SizedBox fresh from a constructor, under any constraints a parent may hand down
InitBuild ==
    /\ fd = FontDescriptor_new("SYSTEM_UI")
    /\ fdFamily = "SYSTEM_UI"
    /\ fdSet = {}
    /\ widget \in {SizedBox_empty} \cup {SizedBox_new(c) : c \in Children}
    /\ parent_bc \in ParentConstraints
    /\ requests = {}
    /\ dirty = FALSE
    /\ last = [op |-> "init"]

\* a font descriptor and the builders applied to it
NextFont ==
    \/ Call_new
    \/ Call_with_size
    \/ Call_with_weight
    \/ Call_with_style

SpecFont == InitFont /\ [][NextFont]_vars

\* a SizedBox under construction, asked for its child constraints and its layout
NextBuild ==
    \/ Build_new
    \/ Build_empty
    \/ Build_width
    \/ Build_height
    \/ Build_expand
    \/ Build_expand_width
    \/ Build_expand_height
    \/ Build_border
    \/ Call_child_constraints
    \/ Call_layout

SpecBuild == InitBuild /\ [][NextBuild]_vars

\* a SizedBox in the widget tree: mutators, events and passes
Next ==
    \/ set_child
    \/ remove_child
    \/ set_width
    \/ set_height
    \/ unset_width
    \/ unset_height
    \/ set_background
    \/ clear_background
    \/ set_border
    \/ clear_border
    \/ set_rounded
    \/ Call_on_event
    \/ Call_on_status_change
    \/ Call_lifecycle
    \/ Call_paint
    \/ Call_layout

Spec == Init /\ [][Next]_vars

(***************************************************************************)
(* Properties                                                              *)
(***************************************************************************)
\* v clamped into [lo, hi]
Clamped(v, lo, hi) == IF v < lo THEN lo ELSE IF v > hi THEN hi ELSE v

AfterChildConstraints == last.op = "child_constraints"
AfterLayout == last.op = "layout"
AfterPaint == last.op = "paint"

\* C1: with a width set to w, child_constraints(bc) has min width = max
\* width = w clamped into [bc.min.width, bc.max.width]; likewise for a set
\* height; a box with both dimensions infinite under bounded constraints
\* gives child constraints whose min is bc.max.
C1_SetAxisTight ==
    AfterChildConstraints =>
        /\ is_some(widget.width) =>
            /\ last.out.min.width = last.out.max.width
            /\ last.out.min.width =
                   Clamped(unwrap(widget.width), parent_bc.min.width, parent_bc.max.width)
        /\ is_some(widget.height) =>
            /\ last.out.min.height = last.out.max.height
            /\ last.out.min.height =
                   Clamped(unwrap(widget.height), parent_bc.min.height, parent_bc.max.height)
        /\ ( /\ widget.width = Some(INFINITY)
             /\ widget.height = Some(INFINITY)
             /\ parent_bc.max.width # INFINITY
             /\ parent_bc.max.height # INFINITY ) => last.out.min = parent_bc.max

\* an expanded box under bounded, loose constraints was asked for its child constraints
C1_Witness ==
    /\ AfterChildConstraints
    /\ widget.width = Some(INFINITY)
    /\ widget.height = Some(INFINITY)
    /\ parent_bc.max.width = MaxDim
    /\ parent_bc.max.height = MaxDim
    /\ parent_bc.min.width < parent_bc.max.width
    /\ parent_bc.min.height < parent_bc.max.height

\* C2: on an axis whose dimension is not set, child_constraints(bc) keeps
\* bc's min and max of that axis, whatever the other axis is set to.
C2_UnsetAxisUnchanged ==
    AfterChildConstraints =>
        /\ ~is_some(widget.width) =>
            /\ last.out.min.width = parent_bc.min.width
            /\ last.out.max.width = parent_bc.max.width
        /\ ~is_some(widget.height) =>
            /\ last.out.min.height = parent_bc.min.height
            /\ last.out.max.height = parent_bc.max.height

\* only the height is set, and the parent's width range is a proper range
\* with a positive minimum
C2_Witness ==
    /\ AfterChildConstraints
    /\ ~is_some(widget.width)
    /\ is_some(widget.height)
    /\ 0 < parent_bc.min.width
    /\ parent_bc.min.width < parent_bc.max.width

\* the borders a SizedBox may have
Borders == {None} \cup {Some(BorderStyle(bw)) : bw \in BorderWidths}

\* C3: without a child, layout(bc) returns in each dimension the set value,
\* or zero when it is not set, clamped into the parent's [min, max]; the
\* result is the same for every border.
C3_EmptyLayout ==
    (AfterLayout /\ ~is_some(widget.child)) =>
        /\ last.out.size.width =
               Clamped(unwrap_or(widget.width, 0), parent_bc.min.width, parent_bc.max.width)
        /\ last.out.size.height =
               Clamped(unwrap_or(widget.height, 0), parent_bc.min.height, parent_bc.max.height)
        /\ \A b \in Borders :
               layout([widget EXCEPT !.border = b], parent_bc, Size_new(0, 0)).size
                   = last.out.size

\* a childless box with a real border, a width above the parent's maximum
\* and no height was laid out
C3_Witness ==
    /\ AfterLayout
    /\ ~is_some(widget.child)
    /\ is_some(widget.border)
    /\ border_width_of(widget) > 0
    /\ is_some(widget.width)
    /\ unwrap(widget.width) > parent_bc.max.width
    /\ ~is_some(widget.height)
    /\ parent_bc.min.height > 0

\* C4, as claimed: with a child and an unset width (height), the size layout
\* returns equals the child's laid-out size in that dimension, for every border.
C4_MatchesChild ==
    (AfterLayout /\ is_some(widget.child)) =>
        /\ ~is_some(widget.width) =>
               last.out.size.width = unwrap(last.child_size).width
        /\ ~is_some(widget.height) =>
               last.out.size.height = unwrap(last.child_size).height

\* C4, amended: with a child and an unset width (height), the size layout
\* returns is the child's laid-out size in that dimension plus twice the
\* border width, the border width being zero when no border is set.
C4_MatchesChildPlusBorder ==
    (AfterLayout /\ is_some(widget.child)) =>
        LET b == IF widget.border = None THEN 0 ELSE widget.border[1].width
            cw == unwrap(last.child_size).width
            ch == unwrap(last.child_size).height
        IN  /\ ~is_some(widget.width) =>
                /\ cw # INFINITY => last.out.size.width = cw + b + b
                /\ cw = INFINITY => last.out.size.width = INFINITY
            /\ ~is_some(widget.height) =>
                /\ ch # INFINITY => last.out.size.height = ch + b + b
                /\ ch = INFINITY => last.out.size.height = INFINITY

\* a box with a child, a real border and no width was laid out, the child
\* answering a finite size
C4_Witness ==
    /\ AfterLayout
    /\ is_some(widget.child)
    /\ ~is_some(widget.width)
    /\ is_some(widget.border)
    /\ border_width_of(widget) > 0
    /\ unwrap(last.child_size).width # INFINITY
    /\ unwrap(last.child_size).width > 0

\* what a builder call leaves of the descriptor it is applied to
BuilderStep ==
    /\ last'.op = "with_size" =>
        /\ fd'.size = last'.arg
        /\ fd'.family = fd.family /\ fd'.weight = fd.weight /\ fd'.style = fd.style
    /\ last'.op = "with_weight" =>
        /\ fd'.weight = last'.arg
        /\ fd'.family = fd.family /\ fd'.size = fd.size /\ fd'.style = fd.style
    /\ last'.op = "with_style" =>
        /\ fd'.style = last'.arg
        /\ fd'.family = fd.family /\ fd'.size = fd.size /\ fd'.weight = fd.weight

\* builders for different attributes commute; a repeated builder keeps the last value
BuildersCommute ==
    \A s \in FontSizes, w \in FontWeights, st \in FontStyles :
        /\ with_weight(with_size(fd, s), w) = with_size(with_weight(fd, w), s)
        /\ with_style(with_size(fd, s), st) = with_size(with_style(fd, st), s)
        /\ with_style(with_weight(fd, w), st) = with_weight(with_style(fd, st), w)
        /\ with_size(with_size(fd, s), fd.size).size = fd.size
        /\ with_weight(with_weight(fd, w), fd.weight).weight = fd.weight
        /\ with_style(with_style(fd, st), fd.style).style = fd.style

\* the family given to new is kept, and so is the default of every attribute never set
DefaultsKept ==
    /\ fd.family = fdFamily
    /\ "size" \notin fdSet => fd.size = DEFAULT_FONT_SIZE
    /\ "weight" \notin fdSet => fd.weight = "REGULAR"
    /\ "style" \notin fdSet => fd.style = "Regular"

\* C5: each FontDescriptor builder replaces exactly the attribute it names
\* and leaves family and the other two attributes unchanged; builders for
\* different attributes commute, a repeated builder keeps the last value, and
\* after new(family) and any builders the family is the given one and every
\* attribute never set has its default.
C5_Builders == [](DefaultsKept /\ BuildersCommute) /\ [][BuilderStep]_vars

\* with_weight was just applied to a descriptor whose size and style had been set
C5_Witness ==
    /\ last.op = "with_weight"
    /\ fdSet = {"size", "weight", "style"}
    /\ fd.family = "SERIF"
    /\ fd.size # DEFAULT_FONT_SIZE
    /\ fd.weight = "BOLD"
    /\ fd.style = "Italic"

LayoutMutators ==
    {"set_child", "remove_child", "set_width", "set_height",
     "unset_width", "unset_height", "set_border", "clear_border"}

LayoutFields(w) == <<w.child, w.width, w.height, w.border>>

\* C6: if a mutator changed child, width, height or border since the last
\* layout pass, a layout request is pending; each of the eight mutators
\* requests the layout in the step that changes the field.
C6_LayoutRequested ==
    /\ [](dirty => "layout" \in requests)
    /\ [][ /\ last'.op \in LayoutMutators => "layout" \in requests'
           /\ LayoutFields(widget') # LayoutFields(widget) => "layout" \in requests' ]_vars

\* a border was set on a box right after a layout pass
C6_Witness ==
    /\ last.op = "set_border"
    /\ dirty
    /\ requests = {"layout"}
    /\ is_some(widget.border)
    /\ ~is_some(widget.child) /\ ~is_some(widget.width) /\ ~is_some(widget.height)

OpNames(ops) == [i \in 1..Len(ops) |-> ops[i].op]

\* C7: paint issues, in this order, the background inside a save/restore
\* scope clipped to the widget's rounded rectangle (if a background is set),
\* the border stroke (if a border is set), the child's paint (if there is a
\* child); the stroke and the child's paint are not under the background's clip.
C7_PaintOrder ==
    AfterPaint =>
        LET ops == last.ctx.ops
            panel == [inset_x2 |-> 0, radius |-> widget.corner_radius]
        IN  /\ OpNames(ops) =
                   (IF widget.background # None
                    THEN <<"save", "clip", "fill", "restore">> ELSE << >>)
                   \o (IF widget.border # None THEN <<"stroke">> ELSE << >>)
                   \o (IF widget.child # None THEN <<"child_paint">> ELSE << >>)
            /\ \A i \in 1..Len(ops) :
                /\ ops[i].op = "clip" => ops[i].arg = <<panel>>
                /\ ops[i].op = "fill" => ops[i].clip = <<panel>>
                /\ ops[i].op \in {"stroke", "child_paint"} => ops[i].clip = << >>
            /\ last.ctx.clip = << >>
            /\ last.ctx.saved = << >>

\* a box with a background, a border and a child was painted
C7_Witness ==
    /\ AfterPaint
    /\ is_some(widget.background)
    /\ is_some(widget.border)
    /\ is_some(widget.child)
    /\ Len(last.ctx.ops) = 6

\* C8: on_event and lifecycle forward what they receive exactly once,
\* unmodified, to the child when there is one, and do nothing without a
\* child; on_status_change is never forwarded.
C8_Delegation ==
    /\ [](last.op \in {"on_event", "lifecycle"} =>
            IF widget.child # None
            THEN /\ Len(last.calls) = 1
                 /\ last.calls[1].child = widget.child[1]
                 /\ last.calls[1].method = last.op
                 /\ last.calls[1].arg = last.arg
            ELSE last.calls = << >>)
    /\ [](last.op = "on_status_change" => last.calls = << >>)
    /\ [][ (last'.op = "on_status_change" \/
            (last'.op \in {"on_event", "lifecycle"} /\ widget.child = None))
           => UNCHANGED <<widget, parent_bc, requests, dirty>> ]_vars

\* a lifecycle notification reached a box with a child
C8_Witness ==
    /\ last.op = "lifecycle"
    /\ last.arg = "WidgetAdded"
    /\ is_some(widget.child)

====
